---- MODULE Spec2Model ----
(***************************************************************************)
(* Authentication and request-authorization core of the JourneyConnect     *)
(* server (src/server.js): configuration of the signing secret, the users, *)
(* carpool_rides and travel_plans tables, Register, Login, the             *)
(* authenticateToken middleware in front of the two protected POST routes, *)
(* and the two listings that join the users table.                         *)
(*                                                                         *)
(* Every handler is cut at its asynchronous points (a database callback,   *)
(* an awaited bcrypt promise); the code between two such points is one     *)
(* atomic action, and the actions of different requests interleave freely. *)
(*                                                                         *)
(* Encodings.  A JSON value that is not a string is written as a tagged    *)
(* string: NumPw is the number 123 sent as password, Undef is a missing    *)
(* (undefined) property.  A bcrypt digest is the record of its salt and    *)
(* the password it was computed from: compare(p, d) is then d.pw = p, and  *)
(* the digest is a value of its own kind, never equal to a plain string.   *)
(* A JSON Web Token is the record of its payload and of the key that       *)
(* signed it.  Time is the NumericDate clock (whole seconds) that          *)
(* jsonwebtoken stamps and compares.                                       *)
(***************************************************************************)
EXTENDS Integers, Sequences, FiniteSets, TLC

\* ---------------------------------------------------------------- bounds
\* Rows the carpool_rides and the travel_plans table may each grow to.
MaxRows == 1

\* ------------------------------------------------------ program constants
\* expiresIn: '24h', in seconds
ExpiresIn == 86400
DefaultSecret == "your-secret-key-here"

\* --------------------------------------------------------------- inputs
Undef == "<undefined>"
NumPw == "<number 123>"
EnvValues == {Undef, "prod-secret"}
\* POST /api/register bodies: every pair of a stored-or-not email with a
\* right, a wrong and a non-string password, and one body per missing field.
RegisterBodies ==
    { [email |-> e, password |-> p, name |-> "Alice", phone |-> "555"] :
        e \in {"a@x", "b@x"}, p \in {"pw1", "pw2", NumPw} }
    \cup { [email |-> "", password |-> "pw1", name |-> "Alice", phone |-> "555"],
           [email |-> "a@x", password |-> "", name |-> "Alice", phone |-> Undef],
           [email |-> "a@x", password |-> "pw1", name |-> "", phone |-> Undef],
           [email |-> "b@x", password |-> "pw2", name |-> "Bob", phone |-> Undef] }
\* POST /api/login bodies.
LoginBodies ==
    { [email |-> e, password |-> p] : e \in {"a@x", "b@x"}, p \in {"pw1", "pw2", NumPw} }
    \cup { [email |-> "", password |-> "pw1"], [email |-> "a@x", password |-> Undef] }
\* The instants at which something happens: a token issued at 0 is looked at
\* one second before its expiry and at it, when one issued at ExpiresIn - 1
\* is still good.
TimePoints == {0, ExpiresIn - 1, ExpiresIn}

\* Two connections: every property below speaks of one request or of a pair.
Conn == {1, 2}

\* JavaScript truthiness of the values a request field can hold.
Falsy(v) == v = "" \/ v = Undef
IsString(v) == v # NumPw /\ v # Undef

\* ------------------------------------------------------------- bcryptjs
Salts == {"salt1"}
NoDigest == [salt |-> "", pw |-> ""]
\* bcrypt.hash(s, 10): rejects ("Illegal arguments") unless s is a string.
HashRejects(s) == ~IsString(s)
bcryptHash(s, salt) == [salt |-> salt, pw |-> s]
\* bcrypt.compare(s, hash): rejects unless s is a string.
CompareRejects(s) == ~IsString(s)
bcryptCompare(s, digest) == digest.pw = s

\* --------------------------------------------------------- jsonwebtoken
UndefToken == [raw |-> Undef, userId |-> 0, email |-> "", iat |-> 0, exp |-> 0, sig |-> ""]
EmptyToken == [UndefToken EXCEPT !.raw = ""]
GarbageToken == [UndefToken EXCEPT !.raw = "garbage"]
\* Well-formed tokens minted outside the server: with a key of the sender's
\* own, and with the key printed in the source.
ForgedTokens ==
    { [raw |-> "jwt", userId |-> 1, email |-> "a@x", iat |-> 0,
       exp |-> 2 * ExpiresIn, sig |-> k] : k \in {"attacker-key", DefaultSecret} }

jwtSignShortLived(userId, email, secret, now) ==
    [raw |-> "jwt", userId |-> userId, email |-> email, iat |-> now,
     exp |-> now, sig |-> secret]
\* jwt.sign({ userId, email }, JWT_SECRET, { expiresIn: '24h' })
jwtSign(userId, email, secret, now) ==
    [raw |-> "jwt", userId |-> userId, email |-> email, iat |-> now,
     exp |-> now + ExpiresIn, sig |-> secret]

\* jwt.verify(token, JWT_SECRET, cb): the err of the callback.  Malformed,
\* signed with another key, or clock >= exp.
jwtVerifyErr(token, secret, now) ==
    \/ token.raw # "jwt"
    \/ token.sig # secret
    \/ now >= token.exp
\* ... and its decoded payload when err is null.
jwtDecoded(token) ==
    [userId |-> token.userId, email |-> token.email, iat |-> token.iat, exp |-> token.exp]
NoUser == [userId |-> 0, email |-> "", iat |-> 0, exp |-> 0]

\* ---------------------------------------------------------------- state
VARIABLES
    phase,        \* "boot" | "configured" | "listening"
    envSecret,    \* process.env.JWT_SECRET
    JWT_SECRET,   \* the module constant of that name, once line 14 has run
    clock,        \* seconds
    users,        \* the users table, in id order: users[i].id = i
    rides,        \* the carpool_rides table
    plans,        \* the travel_plans table
    conn,         \* the requests: position, inputs, locals, answers sent
    registered    \* history: the Registers answered 201, as (email, password, id)

vars == <<phase, envSecret, JWT_SECRET, clock, users, rides, plans, conn, registered>>

NoRow == [id |-> 0, email |-> "", password |-> NoDigest, name |-> "", phone |-> Undef]

\* Locals of a handler, and what the properties must remember of its run:
\*   user      the row db.get handed to the callback
\*   hashed    hashedPassword
\*   identity  req.user
\*   next      authenticateToken called next()
\*   verified  jwt.verify accepted the token of the request when the
\*             middleware ran
\*   issuedAt  the clock when the answer's token was signed
\*   held      the row with the request's email when the request arrived
\*   prior     id of the user a completed Register made with the request's
\*             email and password before the request arrived (0: none)
\*   checked   the existence check found no user
\*   tried     the INSERT was run
\*   wrote     the request added a row to a table
\*   failed    a database call or a bcrypt call of the request failed
NoLocals ==
    [user |-> NoRow, hashed |-> NoDigest, identity |-> NoUser, next |-> FALSE,
     verified |-> FALSE, issuedAt |-> 0, held |-> NoRow, prior |-> 0,
     checked |-> FALSE, tried |-> FALSE, wrote |-> FALSE, failed |-> FALSE]

Idle == [pc |-> "idle", kind |-> "none", req |-> [none |-> TRUE], loc |-> NoLocals, resp |-> <<>>]

\* A request is over when it was answered or when its handler died.
Finished(c) == conn[c].pc \in {"done", "abandoned"}
\* Connections are interchangeable: a request takes the first idle one.
Free(c) == conn[c].pc = "idle" /\ \A d \in Conn : d < c => conn[d].pc # "idle"

\* res.status(s).json(b)
Json(s, b) == [status |-> s, body |-> b]
Msg(s, m) == Json(s, [message |-> m])

\* SELECT * FROM users WHERE email = ?
FindByEmail(email) ==
    IF \E i \in 1..Len(users) : users[i].email = email
    THEN users[CHOOSE i \in 1..Len(users) : users[i].email = email]
    ELSE NoRow

Init ==
    /\ phase = "boot"
    /\ envSecret \in EnvValues
    /\ JWT_SECRET = Undef
    /\ clock = 0
    /\ users = <<>>
    /\ rides = <<>>
    /\ plans = <<>>
    /\ conn = [c \in Conn |-> Idle]
    /\ registered = {}

\* -------------------------------------------------------------- start-up
\* const JWT_SECRET = process.env.JWT_SECRET || 'your-secret-key-here'
LoadConfig ==
    /\ phase = "boot"
    /\ JWT_SECRET' = IF Falsy(envSecret) THEN DefaultSecret ELSE envSecret
    /\ phase' = "configured"
    /\ UNCHANGED <<envSecret, clock, users, rides, plans, conn, registered>>

\* app.listen(PORT, '0.0.0.0', ...)
Listen ==
    /\ phase = "configured"
    /\ phase' = "listening"
    /\ UNCHANGED <<envSecret, JWT_SECRET, clock, users, rides, plans, conn, registered>>

\* Time passes.
Tick ==
    /\ \E t \in TimePoints : t > clock /\ clock' = t
    /\ UNCHANGED <<phase, envSecret, JWT_SECRET, users, rides, plans, conn, registered>>

config == <<phase, envSecret, JWT_SECRET>>

\* One step of request c: its new position, locals and answers.
Step(c, pc, loc, resp) ==
    conn' = [conn EXCEPT ![c] = [@ EXCEPT !.pc = pc, !.loc = loc, !.resp = resp]]
\* res.json(...) on request c, which ends the handler.
Answer(c, loc, r) == Step(c, "done", loc, Append(conn[c].resp, r))

\* -------------------------------------------------------------- Register
\* if (!email || !password || !name)
RegisterInvalid(req) == Falsy(req.email) \/ Falsy(req.password) \/ Falsy(req.name)

\* POST /api/register, up to the call of db.get.
RegisterArrive(c, req) ==
    /\ phase = "listening"
    /\ Free(c)
    /\ LET loc == [NoLocals EXCEPT !.held = FindByEmail(req.email)]
       IN  conn' = [conn EXCEPT ![c] =
                IF RegisterInvalid(req)
                THEN [pc |-> "done", kind |-> "register", req |-> req, loc |-> loc,
                      resp |-> <<Msg(400, "Email, password, and name are required")>>]
                ELSE [pc |-> "reg_get", kind |-> "register", req |-> req, loc |-> loc,
                      resp |-> <<>>]]
    /\ UNCHANGED <<config, clock, users, rides, plans, registered>>

RegisterUserFoundNever(user) == FALSE
\* if (user)
RegisterUserFound(user) == user # NoRow

\* The callback of db.get: the existence check, then bcrypt.hash is started.
RegisterLookedUp(c) ==
    /\ conn[c].pc = "reg_get"
    /\ LET user == FindByEmail(conn[c].req.email)
           loc == [conn[c].loc EXCEPT !.user = user]
       IN  IF RegisterUserFound(user)
           THEN Answer(c, loc, Msg(400, "User already exists"))
           ELSE Step(c, "reg_hash", [loc EXCEPT !.checked = TRUE], conn[c].resp)
    /\ UNCHANGED <<config, clock, users, rides, plans, registered>>

\* await bcrypt.hash(password, 10) settles.  A rejection is thrown inside the
\* async callback of db.get, where nothing catches it: the try of the route
\* ended when db.get returned.  No answer is sent.
RegisterHashed(c) ==
    /\ conn[c].pc = "reg_hash"
    /\ IF HashRejects(conn[c].req.password)
       THEN Step(c, "abandoned", [conn[c].loc EXCEPT !.failed = TRUE], conn[c].resp)
       ELSE \E salt \in Salts :
               Step(c, "reg_insert",
                    [conn[c].loc EXCEPT !.hashed = bcryptHash(conn[c].req.password, salt)],
                    conn[c].resp)
    /\ UNCHANGED <<config, clock, users, rides, plans, registered>>

NoUniqueConstraint(email) == FALSE
\* email TEXT UNIQUE NOT NULL: the INSERT fails when the email is stored.
UniqueViolation(email) == \E i \in 1..Len(users) : users[i].email = email

\* user: { id: this.lastID, email, name, phone }
RegisteredUser(id, req, hashed) ==
    [id |-> id, email |-> req.email, name |-> req.name, phone |-> req.phone]

\* INSERT INTO users ... and its callback.
RegisterInserted(c) ==
    /\ conn[c].pc = "reg_insert"
    /\ LET req == conn[c].req
           loc == [conn[c].loc EXCEPT !.tried = TRUE]
           lastID == Len(users) + 1
       IN  IF UniqueViolation(req.email)
           THEN /\ Answer(c, [loc EXCEPT !.failed = TRUE], Msg(500, "Error creating user"))
                /\ UNCHANGED <<users, registered>>
           ELSE /\ users' = Append(users,
                        [id |-> lastID, email |-> req.email, password |-> loc.hashed,
                         name |-> req.name, phone |-> req.phone])
                /\ registered' = registered \cup
                        {[email |-> req.email, password |-> req.password, id |-> lastID]}
                /\ Answer(c, [loc EXCEPT !.wrote = TRUE, !.issuedAt = clock],
                          Json(201, [token |-> jwtSign(lastID, req.email, JWT_SECRET, clock),
                                     user |-> RegisteredUser(lastID, req, loc.hashed)]))
    /\ UNCHANGED <<config, clock, rides, plans>>

\* ----------------------------------------------------------------- Login
\* if (!email || !password)
LoginInvalid(req) == Falsy(req.email) \/ Falsy(req.password)

\* POST /api/login, up to the call of db.get.
LoginArrive(c, req) ==
    /\ phase = "listening"
    /\ Free(c)
    /\ LET made == {g \in registered : g.email = req.email /\ g.password = req.password}
           loc == [NoLocals EXCEPT !.held = FindByEmail(req.email),
                                   !.prior = IF made = {} THEN 0
                                             ELSE (CHOOSE g \in made : TRUE).id]
       IN  conn' = [conn EXCEPT ![c] =
                IF LoginInvalid(req)
                THEN [pc |-> "done", kind |-> "login", req |-> req, loc |-> loc,
                      resp |-> <<Msg(400, "Email and password are required")>>]
                ELSE [pc |-> "login_get", kind |-> "login", req |-> req, loc |-> loc,
                      resp |-> <<>>]]
    /\ UNCHANGED <<config, clock, users, rides, plans, registered>>

\* if (!user) return res.status(400).json({ message: 'Invalid credentials' })
LoginNoUserAnswer == Msg(400, "Invalid credentials")
\* if (!isValidPassword) return res.status(400).json({ message: 'Invalid credentials' })
LoginBadPasswordAnswer == Msg(400, "Invalid credentials")

\* The callback of db.get: the lookup, then bcrypt.compare is started.
LoginLookedUp(c) ==
    /\ conn[c].pc = "login_get"
    /\ LET user == FindByEmail(conn[c].req.email)
           loc == [conn[c].loc EXCEPT !.user = user]
       IN  IF user = NoRow
           THEN Answer(c, loc, LoginNoUserAnswer)
           ELSE Step(c, "login_compare", loc, conn[c].resp)
    /\ UNCHANGED <<config, clock, users, rides, plans, registered>>

LoginUserWithHash(user) == user
\* user: { id: user.id, email: user.email, name: user.name, phone: user.phone }
LoginUser(user) ==
    [id |-> user.id, email |-> user.email, name |-> user.name, phone |-> user.phone]

\* userId: user.userId, a property the row does not have
LoginTokenUndefinedId(user, req, secret, now) == jwtSign(0, user.email, secret, now)
\* jwt.sign({ userId: user.id, email: user.email }, JWT_SECRET, { expiresIn: '24h' })
LoginToken(user, req, secret, now) == jwtSign(user.id, user.email, secret, now)

\* await bcrypt.compare(password, user.password) settles.  A rejection is
\* thrown inside the async callback of db.get and nothing catches it.
LoginCompared(c) ==
    /\ conn[c].pc = "login_compare"
    /\ LET req == conn[c].req
           loc == conn[c].loc
       IN  IF CompareRejects(req.password)
           THEN Step(c, "abandoned", [loc EXCEPT !.failed = TRUE], conn[c].resp)
           ELSE IF ~bcryptCompare(req.password, loc.user.password)
           THEN Answer(c, loc, LoginBadPasswordAnswer)
           ELSE Answer(c, [loc EXCEPT !.issuedAt = clock],
                       Json(200, [token |-> LoginToken(loc.user, req, JWT_SECRET, clock),
                                  user |-> LoginUser(loc.user)]))
    /\ UNCHANGED <<config, clock, users, rides, plans, registered>>

\* ------------------------------------------------------ authenticateToken
\* The authorization header as split(' ') sees it: no header (0 parts), one
\* word (1 part), or a word and a credential.
NoHeader == [parts |-> 0, cred |-> UndefToken]
OneWord == [parts |-> 1, cred |-> UndefToken]
Bearer(t) == [parts |-> 2, cred |-> t]

\* const token = authHeader && authHeader.split(' ')[1]
HeaderToken(header) == IF header.parts < 2 THEN UndefToken ELSE header.cred

authenticateTokenIgnoringExpiry(header, secret, now) ==
    LET token == HeaderToken(header)
    IN  IF Falsy(token.raw)
        THEN [next |-> FALSE, answer |-> Msg(401, "Access token required"), user |-> NoUser]
        ELSE IF token.raw # "jwt" \/ token.sig # secret
        THEN [next |-> FALSE, answer |-> Msg(403, "Invalid token"), user |-> NoUser]
        ELSE [next |-> TRUE, answer |-> Msg(0, ""), user |-> jwtDecoded(token)]
\* The middleware: answers 401 or 403 itself, or sets req.user and calls next().
authenticateToken(header, secret, now) ==
    LET token == HeaderToken(header)
    IN  IF Falsy(token.raw)
        THEN [next |-> FALSE, answer |-> Msg(401, "Access token required"), user |-> NoUser]
        ELSE IF jwtVerifyErr(token, secret, now)
        THEN [next |-> FALSE, answer |-> Msg(403, "Invalid token"), user |-> NoUser]
        ELSE [next |-> TRUE, answer |-> Msg(0, ""), user |-> jwtDecoded(token)]

\* The tokens a client can send: those in the answers it holds, and those
\* it makes up.
HeldTokens ==
    { conn[d].resp[1].body.token :
        d \in {e \in Conn : /\ conn[e].resp # <<>>
                            /\ "token" \in DOMAIN conn[e].resp[1].body} }
Headers ==
    {NoHeader, OneWord}
    \cup {Bearer(t) : t \in HeldTokens \cup ForgedTokens \cup {GarbageToken, EmptyToken}}

\* ---------------------------------------------------------- carpool rides
RideBodies ==
    { [origin |-> "Pune", destination |-> "Goa", departure_time |-> 20,
       available_seats |-> 2, price_per_seat |-> Undef, description |-> Undef],
      [origin |-> "Agra", destination |-> "Goa", departure_time |-> 10,
       available_seats |-> 1, price_per_seat |-> Undef, description |-> Undef],
      [origin |-> "Pune", destination |-> "Goa", departure_time |-> 20,
       available_seats |-> 0, price_per_seat |-> Undef, description |-> Undef] }
\* if (!origin || !destination || !departure_time || !available_seats)
RideInvalid(b) ==
    Falsy(b.origin) \/ Falsy(b.destination) \/ b.departure_time = 0 \/ b.available_seats = 0

InFlight(pc) == Cardinality({d \in Conn : conn[d].pc = pc})

\* POST /api/carpool/rides: authenticateToken, then the route up to db.run.
CreateRideArrive(c, header, body) ==
    /\ phase = "listening"
    /\ Free(c)
    /\ LET auth == authenticateToken(header, JWT_SECRET, clock)
           token == HeaderToken(header)
           loc == [NoLocals EXCEPT !.next = auth.next, !.identity = auth.user,
                       !.verified = ~Falsy(token.raw) /\ ~jwtVerifyErr(token, JWT_SECRET, clock)]
       IN  IF ~auth.next
           THEN conn' = [conn EXCEPT ![c] =
                    [pc |-> "done", kind |-> "ride", req |-> [header |-> header],
                     loc |-> loc, resp |-> <<auth.answer>>]]
           ELSE IF RideInvalid(body)
           THEN conn' = [conn EXCEPT ![c] =
                    [pc |-> "done", kind |-> "ride",
                     req |-> [header |-> header, body |-> body], loc |-> loc,
                     resp |-> <<Msg(400, "All required fields must be provided")>>]]
           ELSE /\ Len(rides) + InFlight("ride_insert") < MaxRows
                /\ conn' = [conn EXCEPT ![c] =
                    [pc |-> "ride_insert", kind |-> "ride",
                     req |-> [header |-> header, body |-> body], loc |-> loc,
                     resp |-> <<>>]]
    /\ UNCHANGED <<config, clock, users, rides, plans, registered>>

\* INSERT INTO carpool_rides ... and its callback.
RideInserted(c) ==
    /\ conn[c].pc = "ride_insert"
    /\ LET b == conn[c].req.body
           lastID == Len(rides) + 1
       IN  /\ rides' = Append(rides,
                  [id |-> lastID, user_id |-> conn[c].loc.identity.userId,
                   origin |-> b.origin, destination |-> b.destination,
                   departure_time |-> b.departure_time,
                   available_seats |-> b.available_seats,
                   price_per_seat |-> b.price_per_seat, description |-> b.description,
                   status |-> "active"])
           /\ Answer(c, [conn[c].loc EXCEPT !.wrote = TRUE],
                     Json(201, [id |-> lastID, message |-> "Ride created successfully"]))
    /\ UNCHANGED <<config, clock, users, plans, registered>>

\* value LIKE '%pattern%', on the strings of this model.
Substrings ==
    { <<"un", "Pune">>, <<"gr", "Agra">>, <<"oa", "Goa">>, <<"a", "Agra">>, <<"a", "Goa">> }
Like(value, pattern) == <<pattern, value>> \in Substrings

\* ORDER BY key ASC over the rows of a table that a WHERE kept: `kept` is
\* the set of their positions, key[i] the sort key of row i.  Rows of equal
\* key come in id order.
SelectOrdered(rows, kept, key) ==
    LET Rank(i) == 1 + Cardinality({j \in kept : \/ key[j] < key[i]
                                                 \/ key[j] = key[i] /\ j < i})
    IN  [k \in 1..Cardinality(kept) |-> rows[CHOOSE i \in kept : Rank(i) = k]]

HasUser(row) == row.user_id \in 1..Len(users)

RideQueries ==
    { [origin |-> Undef, destination |-> Undef], [origin |-> "un", destination |-> "oa"] }

\* SELECT r.*, u.name as driver_name, u.phone as driver_phone
RideRow(r) ==
    [id |-> r.id, user_id |-> r.user_id, origin |-> r.origin,
     destination |-> r.destination, departure_time |-> r.departure_time,
     available_seats |-> r.available_seats, price_per_seat |-> r.price_per_seat,
     description |-> r.description, status |-> r.status,
     driver_name |-> users[r.user_id].name, driver_phone |-> users[r.user_id].phone]

\* ... FROM carpool_rides r JOIN users u ON r.user_id = u.id
\* WHERE r.status = 'active' [AND r.origin LIKE ?] [AND r.destination LIKE ?]
\* ORDER BY r.departure_time ASC
SelectRides(q) ==
    LET Keep(r) == /\ HasUser(r)
                   /\ r.status = "active"
                   /\ (Falsy(q.origin) \/ Like(r.origin, q.origin))
                   /\ (Falsy(q.destination) \/ Like(r.destination, q.destination))
        where == {i \in 1..Len(rides) : Keep(rides[i])}
        kept == SelectOrdered(rides, where, [i \in where |-> rides[i].departure_time])
    IN  [i \in 1..Len(kept) |-> RideRow(kept[i])]

\* GET /api/carpool/rides, up to the call of db.all.
ListRidesArrive(c, q) ==
    /\ phase = "listening"
    /\ Free(c)
    /\ conn' = [conn EXCEPT ![c] =
            [pc |-> "rides_all", kind |-> "rides", req |-> [query |-> q],
             loc |-> NoLocals, resp |-> <<>>]]
    /\ UNCHANGED <<config, clock, users, rides, plans, registered>>

\* The query and its callback: res.json(rows).
RidesListed(c) ==
    /\ conn[c].pc = "rides_all"
    /\ Answer(c, conn[c].loc, Json(200, [rows |-> SelectRides(conn[c].req.query)]))
    /\ UNCHANGED <<config, clock, users, rides, plans, registered>>

\* ---------------------------------------------------------- travel plans
PlanBodies ==
    { [destination |-> "Goa", start_date |-> 5, end_date |-> 9, description |-> Undef,
       budget_range |-> Undef, interests |-> Undef],
      [destination |-> "Agra", start_date |-> 3, end_date |-> 0, description |-> Undef,
       budget_range |-> Undef, interests |-> Undef] }
\* if (!destination || !start_date || !end_date)
PlanInvalid(b) == Falsy(b.destination) \/ b.start_date = 0 \/ b.end_date = 0

\* POST /api/travel/plans: authenticateToken, then the route up to db.run.
CreatePlanArrive(c, header, body) ==
    /\ phase = "listening"
    /\ Free(c)
    /\ LET auth == authenticateToken(header, JWT_SECRET, clock)
           token == HeaderToken(header)
           loc == [NoLocals EXCEPT !.next = auth.next, !.identity = auth.user,
                       !.verified = ~Falsy(token.raw) /\ ~jwtVerifyErr(token, JWT_SECRET, clock)]
       IN  IF ~auth.next
           THEN conn' = [conn EXCEPT ![c] =
                    [pc |-> "done", kind |-> "plan", req |-> [header |-> header],
                     loc |-> loc, resp |-> <<auth.answer>>]]
           ELSE IF PlanInvalid(body)
           THEN conn' = [conn EXCEPT ![c] =
                    [pc |-> "done", kind |-> "plan",
                     req |-> [header |-> header, body |-> body], loc |-> loc,
                     resp |-> <<Msg(400, "Destination, start date, and end date are required")>>]]
           ELSE /\ Len(plans) + InFlight("plan_insert") < MaxRows
                /\ conn' = [conn EXCEPT ![c] =
                    [pc |-> "plan_insert", kind |-> "plan",
                     req |-> [header |-> header, body |-> body], loc |-> loc,
                     resp |-> <<>>]]
    /\ UNCHANGED <<config, clock, users, rides, plans, registered>>

\* INSERT INTO travel_plans ... and its callback.
PlanInserted(c) ==
    /\ conn[c].pc = "plan_insert"
    /\ LET b == conn[c].req.body
           lastID == Len(plans) + 1
       IN  /\ plans' = Append(plans,
                  [id |-> lastID, user_id |-> conn[c].loc.identity.userId,
                   destination |-> b.destination, start_date |-> b.start_date,
                   end_date |-> b.end_date, description |-> b.description,
                   budget_range |-> b.budget_range, interests |-> b.interests,
                   status |-> "active"])
           /\ Answer(c, [conn[c].loc EXCEPT !.wrote = TRUE],
                     Json(201, [id |-> lastID, message |-> "Travel plan created successfully"]))
    /\ UNCHANGED <<config, clock, users, rides, registered>>

PlanQueries == { [destination |-> Undef], [destination |-> "oa"] }

\* SELECT t.*, u.name as traveler_name, u.phone as traveler_phone
PlanRow(t) ==
    [id |-> t.id, user_id |-> t.user_id, destination |-> t.destination,
     start_date |-> t.start_date, end_date |-> t.end_date, description |-> t.description,
     budget_range |-> t.budget_range, interests |-> t.interests, status |-> t.status,
     traveler_name |-> users[t.user_id].name, traveler_phone |-> users[t.user_id].phone]

\* ... FROM travel_plans t JOIN users u ON t.user_id = u.id
\* WHERE t.status = 'active' [AND t.destination LIKE ?] ORDER BY t.start_date ASC
SelectPlans(q) ==
    LET Keep(t) == /\ HasUser(t)
                   /\ t.status = "active"
                   /\ (Falsy(q.destination) \/ Like(t.destination, q.destination))
        where == {i \in 1..Len(plans) : Keep(plans[i])}
        kept == SelectOrdered(plans, where, [i \in where |-> plans[i].start_date])
    IN  [i \in 1..Len(kept) |-> PlanRow(kept[i])]

\* GET /api/travel/plans, up to the call of db.all.
ListPlansArrive(c, q) ==
    /\ phase = "listening"
    /\ Free(c)
    /\ conn' = [conn EXCEPT ![c] =
            [pc |-> "plans_all", kind |-> "plans", req |-> [query |-> q],
             loc |-> NoLocals, resp |-> <<>>]]
    /\ UNCHANGED <<config, clock, users, rides, plans, registered>>

\* The query and its callback: res.json(rows).
PlansListed(c) ==
    /\ conn[c].pc = "plans_all"
    /\ Answer(c, conn[c].loc, Json(200, [rows |-> SelectPlans(conn[c].req.query)]))
    /\ UNCHANGED <<config, clock, users, rides, plans, registered>>

\* ------------------------------------------------------- the store fails
\* A database call hands its callback an err (the file is locked, the disk
\* is full, ...): the `if (err)` branch of the callback.
DbFailed(c, pc, message) ==
    /\ conn[c].pc = pc
    /\ Answer(c, [conn[c].loc EXCEPT !.failed = TRUE], Msg(500, message))
    /\ UNCHANGED <<config, clock, users, rides, plans, registered>>

RegisterLookupFailed(c) == DbFailed(c, "reg_get", "Database error")
RegisterInsertFailed(c) == DbFailed(c, "reg_insert", "Error creating user")
LoginLookupFailed(c) == DbFailed(c, "login_get", "Database error")
RideInsertFailed(c) == DbFailed(c, "ride_insert", "Error creating ride")
RidesQueryFailed(c) == DbFailed(c, "rides_all", "Error fetching rides")
PlanInsertFailed(c) == DbFailed(c, "plan_insert", "Error creating travel plan")
PlansQueryFailed(c) == DbFailed(c, "plans_all", "Error fetching travel plans")

\* The client has read the answer (or given up): the connection is idle again.
Close(c) ==
    /\ Finished(c)
    /\ conn' = [conn EXCEPT ![c] = Idle]
    /\ UNCHANGED <<config, clock, users, rides, plans, registered>>

\* ------------------------------------------------------- specifications
Boot == LoadConfig \/ Listen

AuthSteps ==
    \/ \E c \in Conn : RegisterLookedUp(c)
    \/ \E c \in Conn : RegisterHashed(c)
    \/ \E c \in Conn : RegisterInserted(c)
    \/ \E c \in Conn : LoginLookedUp(c)
    \/ \E c \in Conn : LoginCompared(c)
    \/ \E c \in Conn : Close(c)

AuthFaults ==
    \/ \E c \in Conn : RegisterLookupFailed(c)
    \/ \E c \in Conn : RegisterInsertFailed(c)
    \/ \E c \in Conn : LoginLookupFailed(c)

\* Registration and login, the store answering every call.
Next ==
    \/ Boot
    \/ \E c \in Conn, req \in RegisterBodies : RegisterArrive(c, req)
    \/ \E c \in Conn, req \in LoginBodies : LoginArrive(c, req)
    \/ AuthSteps

Spec == Init /\ [][Next]_vars

\* Registration and login over a store whose calls may fail.
FaultNext == Next \/ AuthFaults

FaultSpec == Init /\ [][FaultNext]_vars

\* Every route, the clock and a store whose calls may fail, for one user.
SystemRegisterBodies ==
    { [email |-> "a@x", password |-> "pw1", name |-> "Alice", phone |-> "555"],
      [email |-> "a@x", password |-> "pw1", name |-> "", phone |-> Undef] }
SystemLoginBodies ==
    { [email |-> "a@x", password |-> "pw1"], [email |-> "a@x", password |-> "pw2"] }

SystemNext ==
    \/ Boot
    \/ Tick
    \/ \E c \in Conn, req \in SystemRegisterBodies : RegisterArrive(c, req)
    \/ \E c \in Conn, req \in SystemLoginBodies : LoginArrive(c, req)
    \/ AuthSteps
    \/ AuthFaults
    \/ \E c \in Conn, h \in Headers, b \in RideBodies : CreateRideArrive(c, h, b)
    \/ \E c \in Conn : RideInserted(c)
    \/ \E c \in Conn, q \in RideQueries : ListRidesArrive(c, q)
    \/ \E c \in Conn : RidesListed(c)
    \/ \E c \in Conn, h \in Headers, b \in PlanBodies : CreatePlanArrive(c, h, b)
    \/ \E c \in Conn : PlanInserted(c)
    \/ \E c \in Conn, q \in PlanQueries : ListPlansArrive(c, q)
    \/ \E c \in Conn : PlansListed(c)
    \/ \E c \in Conn : RideInsertFailed(c)
    \/ \E c \in Conn : RidesQueryFailed(c)
    \/ \E c \in Conn : PlanInsertFailed(c)
    \/ \E c \in Conn : PlansQueryFailed(c)

SystemSpec == Init /\ [][SystemNext]_vars

\* ------------------------------------------------------------ properties
Requests(kinds) == {c \in Conn : conn[c].kind \in kinds}
Token(c) == conn[c].resp[1].body.token
HoldsToken(c) == conn[c].resp # <<>> /\ "token" \in DOMAIN conn[c].resp[1].body

\* C1: a Login that arrives after a Register with the same email and
\* password was answered 201 ends, unless its database lookup failed,
\* answered 200, once, with a token that verifies under the server secret
\* to the id and the email of the user that Register created.
C1_RegisterThenLogin ==
    \A c \in Requests({"login"}) :
        conn[c].loc.prior # 0 /\ Finished(c) /\ ~conn[c].loc.failed =>
            /\ Len(conn[c].resp) = 1
            /\ conn[c].resp[1].status = 200
            /\ ~jwtVerifyErr(Token(c), JWT_SECRET, conn[c].loc.issuedAt)
            /\ jwtDecoded(Token(c)).userId = conn[c].loc.prior
            /\ jwtDecoded(Token(c)).email = conn[c].req.email

C1_Witness ==
    \E c \in Requests({"login"}) :
        conn[c].loc.prior # 0 /\ conn[c].pc = "done" /\ ~conn[c].loc.failed

DuplicateEmail == Msg(400, "User already exists")
ValidationError == Msg(400, "Email, password, and name are required")

\* C2 as claimed: a Register whose email was stored when it arrived is
\* answered DuplicateEmail, whatever else it carries, and writes nothing
\* (a failure of the lookup itself set aside).
C2_DuplicateWhateverBody ==
    \A c \in Requests({"register"}) :
        conn[c].loc.held # NoRow =>
            /\ ~conn[c].loc.wrote
            /\ users[conn[c].loc.held.id] = conn[c].loc.held
            /\ Finished(c) /\ ~conn[c].loc.failed => conn[c].resp = <<DuplicateEmail>>

\* C2 as amended: a Register whose email was stored when it arrived never
\* runs its INSERT and leaves the stored row as it was; it is answered 400:
\* DuplicateEmail when it carries a password and a name, the validation
\* answer when one of them is missing (500 when the lookup itself failed).
C2_DuplicateEmail ==
    \A c \in Requests({"register"}) :
        conn[c].loc.held # NoRow =>
            /\ ~conn[c].loc.wrote /\ ~conn[c].loc.tried
            /\ users[conn[c].loc.held.id] = conn[c].loc.held
            /\ conn[c].pc \in {"reg_get", "done"}
            /\ conn[c].pc = "done" =>
                  conn[c].resp = IF RegisterInvalid(conn[c].req) THEN <<ValidationError>>
                                 ELSE IF conn[c].loc.failed
                                 THEN <<Msg(500, "Database error")>>
                                 ELSE <<DuplicateEmail>>

C2_Witness ==
    \E c \in Requests({"register"}) :
        /\ conn[c].loc.held # NoRow
        /\ conn[c].req.password # conn[c].loc.held.password.pw
        /\ conn[c].resp = <<DuplicateEmail>>

\* C3: a Login whose email no user has and a Login whose email is stored
\* but whose password is not the registered one end with the same answer,
\* InvalidCredentials.
C3_SameInvalidCredentials ==
    \A c, d \in Requests({"login"}) :
        /\ Finished(c) /\ Finished(d)
        /\ ~LoginInvalid(conn[c].req) /\ ~LoginInvalid(conn[d].req)
        /\ conn[c].loc.user = NoRow
        /\ conn[d].loc.user # NoRow
        /\ [email |-> conn[d].req.email, password |-> conn[d].req.password,
            id |-> conn[d].loc.user.id] \notin registered
        => /\ conn[c].resp = <<Msg(400, "Invalid credentials")>>
           /\ conn[d].resp = conn[c].resp

\* C4: the route behind authenticateToken runs if and only if the request
\* carries a token that jwt.verify accepts; without a token the answer is
\* 401, with a token that does not verify it is the one 403, and in both
\* cases the request ends there and adds no row.
C4_Authorize ==
    \A c \in Requests({"ride", "plan"}) :
        LET token == HeaderToken(conn[c].req.header)
            loc == conn[c].loc
        IN  /\ loc.next <=> loc.verified
            /\ Falsy(token.raw) => conn[c].resp = <<Msg(401, "Access token required")>>
            /\ ~Falsy(token.raw) /\ ~loc.verified =>
                  conn[c].resp = <<Msg(403, "Invalid token")>>
            /\ ~loc.verified => conn[c].pc = "done" /\ ~loc.wrote
            /\ loc.verified => loc.identity = jwtDecoded(token)

C4_Witness ==
    \E c \in Requests({"ride", "plan"}) :
        LET token == HeaderToken(conn[c].req.header)
        IN  /\ token.raw = "jwt" /\ token.sig = JWT_SECRET /\ token.exp <= clock
            /\ conn[c].resp = <<Msg(403, "Invalid token")>>
            /\ \E d \in Requests({"ride", "plan"}) : conn[d].loc.wrote

\* C5: the token of an answer of Register or Login, signed at time t,
\* verifies to the id and email of its user at every time before t + 24 h
\* and fails to verify from then on; nothing else ends it.
C5_TokenLifetime ==
    \A c \in Conn :
        HoldsToken(c) =>
            LET issuedAt == conn[c].loc.issuedAt
                user == FindByEmail(conn[c].req.email)
            IN  IF clock < issuedAt + ExpiresIn
                THEN /\ ~jwtVerifyErr(Token(c), JWT_SECRET, clock)
                     /\ jwtDecoded(Token(c)).userId = user.id
                     /\ jwtDecoded(Token(c)).email = user.email
                     /\ user # NoRow
                ELSE jwtVerifyErr(Token(c), JWT_SECRET, clock)

C5_Witness ==
    /\ clock = ExpiresIn
    /\ \E c \in Conn : HoldsToken(c) /\ conn[c].loc.issuedAt = 0
    /\ \E c \in Conn : HoldsToken(c) /\ conn[c].loc.issuedAt = ExpiresIn - 1

\* C6: no two stored users have the same email, however Register requests
\* for one email interleave their check and their INSERT.
C6_EmailUnique ==
    \A i, j \in 1..Len(users) : i # j => users[i].email # users[j].email

C6_Witness ==
    \E c, d \in Requests({"register"}) :
        /\ c # d
        /\ conn[c].req.email = conn[d].req.email
        /\ conn[c].loc.checked /\ conn[d].loc.checked
        /\ conn[c].loc.tried /\ conn[d].loc.tried
        /\ conn[c].loc.wrote

\* The property names an answer carries, at every depth.
Keys(body) ==
    DOMAIN body
    \cup (IF "user" \in DOMAIN body THEN DOMAIN body.user ELSE {})
    \cup (IF "rows" \in DOMAIN body
          THEN UNION {DOMAIN body.rows[i] : i \in 1..Len(body.rows)} ELSE {})
PublicUserKeys == {"id", "email", "name", "phone"}

\* C7: no answer of any route carries a password, hashed or plain: the
\* user of a Register or Login answer is the public view, a listed row has
\* no password column, and a token's payload is the id and the email.
C7_NoPasswordInAnswers ==
    \A c \in Conn : \A i \in 1..Len(conn[c].resp) :
        LET body == conn[c].resp[i].body
        IN  /\ "password" \notin Keys(body)
            /\ "hashed" \notin Keys(body)
            /\ "user" \in DOMAIN body => DOMAIN body.user = PublicUserKeys
            /\ "token" \in DOMAIN body =>
                  DOMAIN jwtDecoded(body.token) = {"userId", "email", "iat", "exp"}

C7_Witness ==
    /\ \E c \in Requests({"login"}) : HoldsToken(c)
    /\ \E c \in Requests({"rides", "plans"}) :
          conn[c].resp # <<>> /\ conn[c].resp[1].status = 200
          /\ conn[c].resp[1].body.rows # <<>>

\* C8: the process accepts requests only if the signing secret was set in
\* its configuration, and never signs with the secret printed in the source.
C8_RefusesToStartWithoutSecret ==
    phase = "listening" => ~Falsy(envSecret) /\ JWT_SECRET # DefaultSecret

\* C9: a Register or Login in which a database call or a bcrypt call failed
\* ends answered, once, with a 500.
C9_FailureAnswered500 ==
    \A c \in Requests({"register", "login"}) :
        conn[c].loc.failed /\ Finished(c) =>
            Len(conn[c].resp) = 1 /\ conn[c].resp[1].status = 500

\* C10: of two Registers for one email that both passed the existence check
\* and both ran their INSERT, one is answered 201 and the other the 400
\* DuplicateEmail answer.
C10_RaceLoserGetsDuplicateEmail ==
    \A c, d \in Requests({"register"}) :
        /\ c # d
        /\ conn[c].req.email = conn[d].req.email
        /\ conn[c].loc.checked /\ conn[d].loc.checked
        /\ conn[c].loc.tried /\ conn[d].loc.tried
        /\ Finished(c) /\ Finished(d)
        /\ conn[c].loc.wrote
        => /\ conn[c].resp # <<>> /\ conn[c].resp[1].status = 201
           /\ conn[d].resp = <<DuplicateEmail>>
====
